---- MODULE Spec2Model ----
(***************************************************************************)
(* Raw-REPL driver of src/micropython/read_i2c.py (class ESPI2C) over a    *)
(* serial transport, together with the remote interpreter it talks to.     *)
(*                                                                         *)
(* Bytes are their integer values.  The driver writes whole byte strings   *)
(* with ser.write; the remote consumes them in order and emits its         *)
(* reactions on the wire; the wire delivers them to the driver's input     *)
(* buffer in order, in chunks of any size.  The driver's time.sleep calls  *)
(* are not a synchronisation: between any two driver steps the remote and  *)
(* the wire may take any number of steps, including none.                  *)
(***************************************************************************)
EXTENDS Integers, Sequences, FiniteSets, TLC

VARIABLES
    pc,        \* position of the driver (ESPI2C) in its code
    caller,    \* who called exec_raw: "init" (connect_and_init) or "user"
    code,      \* the code argument of the current exec_raw call
    tx,        \* byte strings written with ser.write, not yet seen by the remote
    wire,      \* bytes the remote has emitted, not yet in the input buffer
    rx,        \* the serial input buffer (ser.in_waiting = Len(rx))
    ret,       \* exec_raw's accumulation buffer
    outcome,   \* how the last exec_raw call ended
    log,       \* transport operations of the driver since the last exec_raw ended
    stream,    \* bytes due to the driver after exec_raw's drain, in emission order
    reply,     \* the reply the remote gave to the current submission
    printed,   \* the stdout part of that reply
    errtext,   \* the stderr part of that reply
    replied,   \* the remote has answered the current submission
    pend1,     \* pending transport input right after connect_and_init's mode entry
    execs,     \* number of exec_raw calls made after construction
    port,      \* the serial port of self.ser: "open" or "closed"
    method,    \* the facade method in progress: "scan", "read_from_mem", "write_to_mem"
    result,    \* what that method returned to its caller
    said,      \* the outcome line that method printed
    found,     \* what the remote's code computed before printing it
    reqs,      \* the (pin, state) arguments of the toggle_pin calls so far
    raw_bytes, \* what toggle_pin's last read_all returned
    reports,   \* per finished toggle_pin call: did it print "ESP32 ERROR"
    defined,   \* the remote has the names of ESP_INIT_CODE
    gpios,     \* the remote's gpios dictionary: the pins it holds
    hw,        \* the remote's pin operations so far, in order
    rbuf,      \* the code the remote has received since the last Ctrl+A/Ctrl+D
    replies,   \* the stderr text of each reply the remote gave to a Ctrl+D
    flow,      \* compute_flow: its position, arguments, solver results and result
    gui,       \* MotorControlGUI: the fields of self, in tenths where numeric
    link,      \* MotorControlGUI's serial port and the motor controller behind it
    tk,        \* MotorControlGUI's event loop: timers, the scale widget, a write under way
    cam        \* firmware_fast: stream_connections and the pass of send_stream_frames

\* state of ESP32Controller and its peer
pin_vars == <<reqs, raw_bytes, reports, defined, gpios, hw, rbuf, replies>>

\* state of the program parts other than ESPI2C's session
\* state of the vinestation programs
station_vars == <<flow, gui, link, tk, cam>>

ext_vars == <<port, method, result, said, found, pin_vars, station_vars>>

vars == <<pc, caller, code, tx, wire, rx, ret, outcome, log, stream, reply,
          printed, errtext, replied, pend1, execs, ext_vars>>

----------------------------------------------------------------------------
(* Bounds *)

\* exec_raw calls made through the facade after the constructor's own call
MaxExecs == 2

----------------------------------------------------------------------------
(* Protocol bytes *)

ETX == 3     \* b'\x03', Ctrl+C
SOH == 1     \* b'\x01', Ctrl+A
EOT == 4     \* b'\x04', Ctrl+D
GT  == 62    \* '>'

\* 'OK'
OK == <<79, 75>>

\* the characters str.strip() removes, as far as the model's alphabet goes
Whitespace == {9, 10, 13, 32}

\* what the remote prints on entering raw mode ("raw REPL; CTRL-B to exit\r\n>"),
\* shortened to its first and last character
Banner == <<82, GT>>

\* code blocks handed to exec_raw: init_code (starts and ends with a newline)
\* and a facade one-liner such as "print(i2c.scan())" (no newline)
init_code == <<10, 97, 10>>
FacadeCodes == {<<97>>}

\* what the remote's code can print, and the error text it can produce
Outs == {<<>>, <<97>>, <<97, 10>>, <<EOT, GT, 97>>}
Errs == {<<>>, <<10>>, <<97>>}

\* Format is: OK<output>\x04<error>\x04>
Resp(out, err) == OK \o out \o <<EOT>> \o err \o <<EOT, GT>>

\* a submission whose code never finishes: the acknowledgement, some output,
\* and no 0x04 at all
Unfinished == OK \o <<97>>

Range(s) == {s[i] : i \in 1..Len(s)}

----------------------------------------------------------------------------
(* bytes/str operations used by exec_raw *)

endswith(s, t) ==
    /\ Len(s) >= Len(t)
    /\ SubSeq(s, Len(s) - Len(t) + 1, Len(s)) = t

startswith(s, t) ==
    /\ Len(s) >= Len(t)
    /\ SubSeq(s, 1, Len(t)) = t

IsPrefix(s, t) == startswith(t, s)

RECURSIVE split(_, _)
split(s, sep) ==
    IF sep \notin Range(s)
    THEN <<s>>
    ELSE LET i == CHOOSE k \in 1..Len(s) :
                    s[k] = sep /\ \A j \in 1..(k - 1) : s[j] # sep
         IN  <<SubSeq(s, 1, i - 1)>> \o split(SubSeq(s, i + 1, Len(s)), sep)

RECURSIVE lstrip(_)
lstrip(s) ==
    IF s # <<>> /\ Head(s) \in Whitespace THEN lstrip(Tail(s)) ELSE s

RECURSIVE rstrip(_)
rstrip(s) ==
    IF s # <<>> /\ s[Len(s)] \in Whitespace
    THEN rstrip(SubSeq(s, 1, Len(s) - 1))
    ELSE s

strip(s) == rstrip(lstrip(s))

\* output[2:] when output.startswith('OK')
RemoveOK(s) == IF startswith(s, OK) THEN SubSeq(s, Len(OK) + 1, Len(s)) ELSE s

\* the replacement character U+FFFD
REPLACEMENT == 65533

\* bytes.decode('utf-8', errors='replace') for texts of one- and two-byte
\* sequences: an ASCII byte is its own character, a lead byte 0xC2..0xDF
\* with a continuation byte 0x80..0xBF is one character, any other byte is
\* replaced by U+FFFD and decoding goes on behind it.
RECURSIVE decode_replace(_)
decode_replace(b) ==
    IF b = <<>> THEN <<>>
    ELSE IF b[1] < 128 THEN <<b[1]>> \o decode_replace(Tail(b))
    ELSE IF b[1] \in 194..223 /\ Len(b) >= 2 /\ b[2] \in 128..191
    THEN <<(b[1] - 192) * 64 + (b[2] - 128)>> \o decode_replace(SubSeq(b, 3, Len(b)))
    ELSE <<REPLACEMENT>> \o decode_replace(Tail(b))

\* the text has a byte sequence that is not UTF-8
Invalid(b) == REPLACEMENT \in Range(decode_replace(b))

\* ParseResponse decoding with errors='strict': UnicodeDecodeError leaves
\* exec_raw
ParseResponse_strict(r) ==
    LET parts == split(r, EOT) IN
    IF Len(parts) >= 2
    THEN IF Invalid(parts[1]) \/ Invalid(parts[2])
         THEN [kind |-> "UnicodeDecodeError", text |-> <<>>]
         ELSE LET output == RemoveOK(strip(decode_replace(parts[1])))
                  error  == strip(decode_replace(parts[2]))
              IN  IF error # <<>>
                  THEN [kind |-> "raise",  text |-> error]
                  ELSE [kind |-> "return", text |-> output]
    ELSE [kind |-> "return", text |-> <<>>]

\* ParseResponse without the .strip() on the output segment
ParseResponse_nostrip(r) ==
    LET parts == split(r, EOT) IN
    IF Len(parts) >= 2
    THEN LET output == RemoveOK(decode_replace(parts[1]))
             error  == strip(decode_replace(parts[2]))
         IN  IF error # <<>>
             THEN [kind |-> "raise",  text |-> error]
             ELSE [kind |-> "return", text |-> output]
    ELSE [kind |-> "return", text |-> <<>>]

\* ParseResponse testing the error segment before trimming it
ParseResponse_rawerror(r) ==
    LET parts == split(r, EOT) IN
    IF Len(parts) >= 2
    THEN LET output == RemoveOK(strip(decode_replace(parts[1])))
             error  == decode_replace(parts[2])
         IN  IF error # <<>>
             THEN [kind |-> "raise",  text |-> strip(error)]
             ELSE [kind |-> "return", text |-> output]
    ELSE [kind |-> "return", text |-> <<>>]

\* Lines 69-80 of exec_raw: the value returned or the error raised for the
\* accumulated bytes r.  kind "raise" is RuntimeError("ESP32 Error: " + text).
ParseResponse(r) ==
    LET parts == split(r, EOT) IN
    IF Len(parts) >= 2
    THEN LET output == RemoveOK(strip(decode_replace(parts[1])))
             error  == strip(decode_replace(parts[2]))
         IN  IF error # <<>>
             THEN [kind |-> "raise",  text |-> error]
             ELSE [kind |-> "return", text |-> output]
    ELSE [kind |-> "return", text |-> <<>>]

NoOutcome == [kind |-> "none", text |-> <<>>]

----------------------------------------------------------------------------
(* Transport operations of the driver *)

Write(bytes) == [op |-> "write", data |-> bytes]
ReadAll      == [op |-> "read_all", data |-> <<>>]

\* self.ser.write(bytes)
ser_write(bytes) ==
    /\ tx'  = Append(tx, bytes)
    /\ log' = Append(log, Write(bytes))

\* self.ser.read_all(), result discarded
ser_read_all ==
    /\ rx'  = <<>>
    /\ log' = Append(log, ReadAll)

\* everything written and not yet answered by the remote, flattened
RECURSIVE Flatten(_)
Flatten(q) == IF q = <<>> THEN <<>> ELSE Head(q) \o Flatten(Tail(q))

RECURSIVE BannersFor(_)
BannersFor(bytes) ==
    IF bytes = <<>> THEN <<>>
    ELSE (IF Head(bytes) = SOH THEN Banner ELSE <<>>) \o BannersFor(Tail(bytes))

\* input that is or will become readable without any further write
Pending == rx \o wire \o BannersFor(Flatten(tx))

NoResult == [kind |-> "none", val |-> <<>>]
NoFound  == [sem |-> "none", val |-> <<>>]

\* nothing of the facade is in progress
FacadeIdle ==
    /\ method = "none"
    /\ result = NoResult
    /\ said = ""
    /\ found = NoFound

\* compute_flow has not been called
NoFlow == [pc |-> "none"]

\* margin = 5.0
margin == 50

\* self.min_bound = -10.0
min_bound0 == -100

\* self.max_bound = 10.0
max_bound0 == 100

\* MotorControlGUI.__init__: the fields before the serial thread has run;
\* offset None is has_offset FALSE, sent_any tells whether send_target has
\* written a message and sent_val its actual_target
NewGui ==
    [min_bound |-> min_bound0, max_bound |-> max_bound0, target_pos |-> 0,
     ignore_slider_event |-> FALSE, connected |-> FALSE, has_offset |-> FALSE,
     offset |-> 0, current_pos |-> 0, sent_any |-> FALSE, sent_val |-> 0]

\* self.serial_port = None; the controller is plugged in and has emitted
\* no position line; nreads counts the readings taken on this connection
NewLink ==
    [serial_port |-> "None", available |-> TRUE, emitted |-> <<>>, nreads |-> 0]

\* none of the vinestation programs runs
\* self.repeat_job = None (0), no after() callback is pending, the scale
\* shows 0.0 and has no command to deliver, no write is under way; calls
\* and sends count set_target_programmatically calls and messages written,
\* stopped tells that stop_repeat has run since the last press, attempt is
\* what the last write found
NewTk ==
    [repeat_job |-> 0, jobs |-> {}, next_id |-> 1, stopped |-> FALSE,
     scale |-> 0, command |-> FALSE, enables |-> 0, calls |-> 0, sends |-> 0,
     wr |-> "idle", attempt |-> [port |-> "none", connected |-> TRUE]]

\* stream_connections = []; send_stream_frames sleeps; start, sent and
\* removed are the connections at the start of the pass, those sent the
\* frame and those removed, broken the connections whose client has left
NewCam ==
    [stream_connections |-> <<>>, pc |-> "sleep", i |-> 0, frames |-> 0,
     start |-> {}, sent |-> {}, removed |-> {}, broken |-> {}, next_conn |-> 1,
     resent |-> FALSE]

StationIdle ==
    /\ flow = NoFlow
    /\ gui = NewGui
    /\ link = NewLink
    /\ tk = NewTk
    /\ cam = NewCam

\* no toggle_pin call was made, the remote holds no pin
PinIdle ==
    /\ reqs = <<>>
    /\ raw_bytes = <<>>
    /\ reports = <<>>
    /\ gpios = {}
    /\ hw = <<>>
    /\ rbuf = <<>>
    /\ replies = <<>>

----------------------------------------------------------------------------
Init ==
    /\ pc = "c_interrupt"
    /\ caller = "init"
    /\ code = <<>>
    /\ tx = <<>>
    /\ wire = <<>>
    /\ rx = <<>>
    /\ ret = <<>>
    /\ outcome = NoOutcome
    /\ log = <<>>
    /\ stream = <<>>
    /\ reply = <<>>
    /\ printed = <<>>
    /\ errtext = <<>>
    /\ replied = FALSE
    /\ pend1 = <<>>
    /\ execs = 0
    /\ port = "open"
    /\ FacadeIdle
    /\ StationIdle
    /\ PinIdle
    /\ defined = TRUE

----------------------------------------------------------------------------
(* ESPI2C.connect_and_init *)

exec_locals == <<code, ret, outcome, reply, printed, errtext, replied>>

\* self.ser.write(b'\x03')
connect_and_init_interrupt ==
    /\ pc = "c_interrupt"
    /\ UNCHANGED ext_vars
    /\ ser_write(<<ETX>>)
    /\ pc' = "c_raw"
    /\ UNCHANGED <<caller, wire, rx, stream, pend1, execs, exec_locals>>

\* self.ser.write(b'\x01')
connect_and_init_raw ==
    /\ pc = "c_raw"
    /\ UNCHANGED ext_vars
    /\ ser_write(<<SOH>>)
    /\ pc' = "c_clear"
    /\ UNCHANGED <<caller, wire, rx, stream, pend1, execs, exec_locals>>

\* self.ser.read_all(), then self.exec_raw(init_code)
connect_and_init_clear ==
    /\ pc = "c_clear"
    /\ UNCHANGED ext_vars
    /\ ser_read_all
    /\ pend1' = wire \o BannersFor(Flatten(tx))
    /\ code' = init_code
    /\ caller' = "init"
    /\ pc' = "x_raw"
    /\ UNCHANGED <<tx, wire, stream, execs, ret, outcome, reply, printed,
                   errtext, replied>>

----------------------------------------------------------------------------
(* ESPI2C.exec_raw *)

\* self.ser.write(b'\x01')
exec_raw_raw ==
    /\ pc = "x_raw"
    /\ UNCHANGED ext_vars
    /\ ser_write(<<SOH>>)
    /\ pc' = "x_clear"
    /\ UNCHANGED <<caller, wire, rx, stream, pend1, execs, exec_locals>>

\* exec_raw_clear without the read_all
exec_raw_clear_nodrain ==
    /\ pc = "x_clear"
    /\ UNCHANGED ext_vars
    /\ stream' = rx \o wire
    /\ pc' = "x_send"
    /\ UNCHANGED <<caller, tx, wire, rx, log, pend1, execs, exec_locals>>

\* self.ser.read_all()  # Clear "OK"
exec_raw_clear ==
    /\ pc = "x_clear"
    /\ UNCHANGED ext_vars
    /\ ser_read_all
    /\ stream' = wire
    /\ pc' = "x_send"
    /\ UNCHANGED <<caller, tx, wire, pend1, execs, exec_locals>>

\* exec_raw_send with the Ctrl+D written ahead of the code
exec_raw_send_trigger_first ==
    /\ pc = "x_send"
    /\ UNCHANGED ext_vars
    /\ ser_write(<<EOT>> \o code)
    /\ ret' = <<>>
    /\ pc' = "x_poll"
    /\ UNCHANGED <<caller, code, wire, rx, stream, pend1, execs, outcome,
                   reply, printed, errtext, replied>>

\* self.ser.write(code.encode('utf-8') + b'\x04'); ret = b""
exec_raw_send ==
    /\ pc = "x_send"
    /\ UNCHANGED ext_vars
    /\ ser_write(code \o <<EOT>>)
    /\ ret' = <<>>
    /\ pc' = "x_poll"
    /\ UNCHANGED <<caller, code, wire, rx, stream, pend1, execs, outcome,
                   reply, printed, errtext, replied>>

\* exec_raw_read with "ret = chunk" in place of "ret += chunk"
exec_raw_read_overwrite ==
    /\ pc = "x_poll"
    /\ UNCHANGED ext_vars
    /\ rx # <<>>
    /\ ret' = rx
    /\ rx' = <<>>
    /\ pc' = IF endswith(ret', <<EOT, GT>>) THEN "x_parse" ELSE "x_poll"
    /\ UNCHANGED <<caller, code, tx, wire, log, stream, pend1, execs, outcome,
                   reply, printed, errtext, replied>>

\* exec_raw_read that leaves the loop at the prompt character alone
exec_raw_read_prompt ==
    /\ pc = "x_poll"
    /\ UNCHANGED ext_vars
    /\ rx # <<>>
    /\ ret' = ret \o rx
    /\ rx' = <<>>
    /\ pc' = IF endswith(ret', <<GT>>) THEN "x_parse" ELSE "x_poll"
    /\ UNCHANGED <<caller, code, tx, wire, log, stream, pend1, execs, outcome,
                   reply, printed, errtext, replied>>

\* One pass of the while loop with in_waiting > 0: read what is buffered,
\* append it, leave the loop if the buffer now ends with b'\x04>'.  A pass
\* with in_waiting = 0 only sleeps and changes nothing.
exec_raw_read ==
    /\ pc = "x_poll"
    /\ UNCHANGED ext_vars
    /\ rx # <<>>
    /\ ret' = ret \o rx
    /\ rx' = <<>>
    /\ pc' = IF endswith(ret', <<EOT, GT>>) THEN "x_parse" ELSE "x_poll"
    /\ UNCHANGED <<caller, code, tx, wire, log, stream, pend1, execs, outcome,
                   reply, printed, errtext, replied>>

\* parts = ret.split(b'\x04') ... return output / raise RuntimeError / return ""
exec_raw_parse ==
    /\ pc = "x_parse"
    /\ UNCHANGED ext_vars
    /\ outcome' = ParseResponse(ret)
    /\ pc' = "x_done"
    /\ UNCHANGED <<caller, code, tx, wire, rx, ret, log, stream, pend1, execs,
                   reply, printed, errtext, replied>>

\* Control leaves exec_raw.  In connect_and_init a return value leads to the
\* "I2C initialized" line and a constructed object, an error leaves __init__
\* and the program; the facade methods catch the error and go on.
exec_raw_exit ==
    /\ pc = "x_done"
    /\ UNCHANGED ext_vars
    /\ pc' = IF caller = "init" /\ outcome.kind = "raise" THEN "failed" ELSE "idle"
    /\ code' = <<>>
    /\ ret' = <<>>
    /\ outcome' = NoOutcome
    /\ log' = <<>>
    /\ stream' = <<>>
    /\ reply' = <<>>
    /\ printed' = <<>>
    /\ errtext' = <<>>
    /\ replied' = FALSE
    /\ UNCHANGED <<caller, tx, wire, rx, pend1, execs>>

\* scan / read_from_mem / write_to_mem: build a code line, call exec_raw
facade_call ==
    /\ pc = "idle"
    /\ UNCHANGED ext_vars
    /\ execs < MaxExecs
    /\ \E c \in FacadeCodes : code' = c
    /\ caller' = "user"
    /\ execs' = execs + 1
    /\ pc' = "x_raw"
    /\ UNCHANGED <<tx, wire, rx, ret, outcome, log, stream, reply, printed,
                   errtext, replied, pend1>>

\* __main__ of read_i2c.py: the except/finally after the use of the driver.
\* esp is still None when the constructor raised, and then nothing is closed.
main_finally ==
    /\ pc \in {"idle", "failed"}
    /\ pc' = "exited"
    /\ port' = IF pc = "idle" THEN "closed" ELSE port
    /\ UNCHANGED <<caller, code, tx, wire, rx, ret, outcome, log, stream, reply,
                   printed, errtext, replied, pend1, execs, method, result,
                   said, found, pin_vars>>
    /\ UNCHANGED station_vars

----------------------------------------------------------------------------
(* The remote interpreter and the serial line *)

ReplyChoices ==
    {[bytes |-> Resp(o, e), out |-> o, err |-> e] : o \in Outs, e \in Errs}
        \cup {[bytes |-> Unfinished, out |-> <<97>>, err |-> <<>>]}

\* The remote takes the next written byte string: Ctrl+C stops what runs and
\* prints nothing, every Ctrl+A prints the raw-mode banner, Ctrl+D runs the
\* code received so far and prints the reply.
remote_recv ==
    /\ tx # <<>>
    /\ UNCHANGED ext_vars
    /\ tx' = Tail(tx)
    /\ IF EOT \in Range(Head(tx))
       THEN \E r \in ReplyChoices :
                /\ wire' = wire \o BannersFor(Head(tx)) \o r.bytes
                /\ stream' = stream \o BannersFor(Head(tx)) \o r.bytes
                /\ reply' = r.bytes
                /\ printed' = r.out
                /\ errtext' = r.err
                /\ replied' = TRUE
       ELSE /\ wire' = wire \o BannersFor(Head(tx))
            /\ stream' = stream \o BannersFor(Head(tx))
            /\ UNCHANGED <<reply, printed, errtext, replied>>
    /\ UNCHANGED <<pc, caller, code, rx, ret, outcome, log, pend1, execs>>

\* The line hands the next k emitted bytes to the driver's input buffer.
serial_deliver ==
    /\ wire # <<>>
    /\ UNCHANGED ext_vars
    /\ \E k \in 1..Len(wire) :
        /\ rx' = rx \o SubSeq(wire, 1, k)
        /\ wire' = SubSeq(wire, k + 1, Len(wire))
    /\ UNCHANGED <<pc, caller, code, tx, ret, outcome, log, stream, reply,
                   printed, errtext, replied, pend1, execs>>

----------------------------------------------------------------------------
DriverNext ==
    \/ connect_and_init_interrupt
    \/ connect_and_init_raw
    \/ connect_and_init_clear
    \/ exec_raw_raw
    \/ exec_raw_clear
    \/ exec_raw_send
    \/ exec_raw_read
    \/ exec_raw_parse
    \/ exec_raw_exit
    \/ facade_call
    \/ main_finally

Next ==
    \/ connect_and_init_interrupt
    \/ connect_and_init_raw
    \/ connect_and_init_clear
    \/ exec_raw_raw
    \/ exec_raw_clear
    \/ exec_raw_send
    \/ exec_raw_read
    \/ exec_raw_parse
    \/ exec_raw_exit
    \/ facade_call
    \/ main_finally
    \/ remote_recv
    \/ serial_deliver

Spec == Init /\ [][Next]_vars

\* The driver's thread keeps running, the remote keeps consuming what it is
\* sent and the line keeps delivering what is on it.
FairSpec ==
    /\ Init
    /\ [][Next]_vars
    /\ WF_vars(DriverNext)
    /\ WF_vars(remote_recv)
    /\ WF_vars(serial_deliver)

TypeOK ==
    /\ pc \in {"c_interrupt", "c_raw", "c_clear", "x_raw", "x_clear", "x_send",
               "x_poll", "x_parse", "x_done", "idle", "failed", "exited"}
    /\ caller \in {"init", "user"}
    /\ outcome.kind \in {"none", "return", "raise"}
    /\ execs \in 0..MaxExecs

----------------------------------------------------------------------------
(* Properties of exec_raw's read loop *)

InOrAfterLoop == pc \in {"x_poll", "x_parse", "x_done"}
AfterLoop     == pc \in {"x_parse", "x_done"}

\* C1: no execute call blocks forever: when the driver sits in its read loop
\* and nothing is buffered, in flight or still to be answered, so that the
\* completion marker will never come, the call can still end (with a
\* timeout) instead of polling on.
C1_ExecuteNeverBlocks ==
    (pc = "x_poll" /\ rx = <<>> /\ wire = <<>> /\ tx = <<>>) => ENABLED DriverNext

\* C2: exec_raw leaves its read loop only when the accumulated bytes end
\* with 0x04 '>', and the accumulated bytes are exactly the bytes read so
\* far, in arrival order, none dropped: together with what is buffered and
\* what is in flight they are the stream emitted since the drain.
C2_LoopExitOnlyAtMarker ==
    /\ AfterLoop => endswith(ret, <<EOT, GT>>)
    /\ InOrAfterLoop => ret \o rx \o wire = stream

\* the loop was left with a banner that had missed the drain, followed by
\* the whole reply, in the buffer
C2_Witness ==
    /\ pc = "x_parse"
    /\ ret = Banner \o reply
    /\ replied

\* C3: the outcome of exec_raw depends only on the byte stream it is due
\* after its drain, not on how the line cuts that stream into chunks: it is
\* the outcome of the run in which the whole stream arrives as one chunk.
C3_ChunkingIndependent ==
    (pc = "x_done" /\ replied /\ tx = <<>>) => outcome = ParseResponse(stream)

----------------------------------------------------------------------------
(* Properties of exec_raw's result *)

\* the reply of the current submission is all that exec_raw accumulated, and
\* the printed output has no 0x04 of its own
CleanReply == replied /\ ret = reply /\ EOT \notin Range(printed)

\* C4 as stated: for code that ran without error exec_raw returns exactly
\* the bytes the remote printed, nothing trimmed.
C4_StdoutExact ==
    (pc = "x_done" /\ CleanReply /\ errtext = <<>>)
        => (outcome.kind = "return" /\ outcome.text = printed)

\* C4 amended: when exec_raw returns, the value is the first 0x04-delimited
\* segment of the stream it was due, trimmed of leading and trailing
\* whitespace and then relieved of one leading "OK"; for a clean reply that
\* is the printed output without its trailing whitespace.
C4_StdoutTrimmed ==
    (pc = "x_done" /\ outcome.kind = "return") =>
        /\ outcome.text = RemoveOK(strip(split(stream, EOT)[1]))
        /\ CleanReply => outcome.text = rstrip(printed)

\* the remote printed "a\n" and exec_raw returned "a"
C4_Witness ==
    /\ pc = "x_done"
    /\ CleanReply
    /\ outcome.kind = "return"
    /\ printed = <<97, 10>>
    /\ outcome.text = <<97>>

\* C5 as stated: exec_raw raises if and only if the stderr segment of the
\* reply is non-empty.
C5_ErrorIffNonEmpty ==
    (pc = "x_done" /\ CleanReply) => ((outcome.kind = "raise") <=> (errtext # <<>>))

\* C5 amended: exec_raw raises if and only if the second 0x04-delimited
\* segment of the stream it was due has a non-whitespace character; the error
\* carries that segment trimmed (the part of it read when the loop ended),
\* and otherwise exec_raw returns.
C5_ErrorIffNonBlank ==
    pc = "x_done" =>
        LET parts == split(stream, EOT) IN
        /\ Len(parts) >= 2
        /\ outcome.kind \in {"return", "raise"}
        /\ (outcome.kind = "raise") <=> (strip(parts[2]) # <<>>)
        /\ outcome.kind = "raise" => IsPrefix(outcome.text, strip(parts[2]))
        /\ (outcome.kind = "raise" /\ ret = stream) => outcome.text = strip(parts[2])
        /\ CleanReply => ((outcome.kind = "raise") <=> (strip(errtext) # <<>>))

\* a reply whose stderr segment is a lone newline, and exec_raw returned
C5_Witness ==
    /\ pc = "x_done"
    /\ CleanReply
    /\ errtext = <<10>>
    /\ outcome.kind = "return"

\* C6: a reply with no 0x04 in it makes exec_raw end with a failure that
\* reports the malformed response; it is not left without any result.
C6_MalformedReported ==
    (pc = "x_poll" /\ replied /\ EOT \notin Range(reply))
        ~> (pc = "x_done" /\ outcome.kind \notin {"none", "return"})

----------------------------------------------------------------------------
(* Properties of what the driver writes *)

\* the driver has written the submission of the current exec_raw call
Submitted == pc \in {"x_poll", "x_parse", "x_done"}

\* the bytes written after the last read_all of a log, in order
RECURSIVE WrittenAfterDrain(_)
WrittenAfterDrain(l) ==
    IF l = <<>> \/ l[Len(l)].op = "read_all"
    THEN <<>>
    ELSE WrittenAfterDrain(SubSeq(l, 1, Len(l) - 1)) \o l[Len(l)].data

Count(s, b) == Cardinality({i \in 1..Len(s) : s[i] = b})

\* C7 as stated: before the code of every exec_raw call the driver has
\* written, since the previous call ended, 0x03, then 0x01, then drained.
C7_FullEntryBeforeCode ==
    Submitted =>
        \E i, j, k \in 1..Len(log) :
            /\ i < j /\ j < k /\ k < Len(log)
            /\ log[i] = Write(<<ETX>>)
            /\ log[j] = Write(<<SOH>>)
            /\ log[k] = ReadAll
            /\ log[Len(log)].op = "write"

\* C7 amended: right before the code of every exec_raw call the driver
\* writes 0x01 and then drains; 0x03 is written once, by connect_and_init,
\* and so precedes only the constructor's own exec_raw call.
C7_RawThenDrainBeforeCode ==
    Submitted =>
        /\ Len(log) >= 3
        /\ log[Len(log)].op = "write"
        /\ log[Len(log) - 1] = ReadAll
        /\ log[Len(log) - 2] = Write(<<SOH>>)
        /\ (Write(<<ETX>>) \in Range(log)) <=> (caller = "init")

\* a facade call has submitted its code: the log since the previous call is
\* 0x01, drain, submission
C7_Witness ==
    /\ pc = "x_poll"
    /\ caller = "user"
    /\ Len(log) = 3

\* C8 as stated: what is written after mode entry is the code, then a
\* newline, then one 0x04.
C8_NewlineThenTrigger ==
    Submitted => endswith(WrittenAfterDrain(log), <<10, EOT>>)

\* C8 amended: what exec_raw writes after its drain is the code bytes as
\* given, followed by exactly one 0x04 as the last byte; exec_raw adds no
\* newline of its own.
C8_CodeThenTrigger ==
    Submitted =>
        /\ WrittenAfterDrain(log) = code \o <<EOT>>
        /\ Count(WrittenAfterDrain(log), EOT) = 1

\* a facade one-liner without a trailing newline has been submitted
C8_Witness ==
    /\ pc = "x_poll"
    /\ caller = "user"
    /\ code # <<>>
    /\ code[Len(code)] # 10
    /\ WrittenAfterDrain(log) = code \o <<EOT>>

\* C9: no byte of the raw-mode banner shows up in what exec_raw returns or
\* raises (the banner's first byte occurs nowhere else).
C9_BannerDiscarded ==
    pc = "x_done" => Head(Banner) \notin Range(outcome.text)

\* C10: the mode entry of exec_raw, performed right after the mode entry of
\* connect_and_init, leaves the pending transport input as the first one
\* left it.
C10_EntryIdempotent ==
    (pc = "x_send" /\ caller = "init") => Pending = pend1

----------------------------------------------------------------------------
(* Release of the transport *)

\* C18: when the program's connect/use/disconnect cycle has ended, the
\* serial port it opened is closed, on the error paths as well.
C18_PortReleased ==
    pc = "exited" => port = "closed"

----------------------------------------------------------------------------
(* ESPI2C.scan, read_from_mem and write_to_mem, used on a constructed *)
(* object.  The code lines are abbreviated to one byte each; the remote *)
(* tells them apart by that byte.                                      *)

\* calls made by the program in one run of the facade specification
MaxCalls == 1

scan_code  == <<115>>
read_code  == <<114>>
write_code == <<119>>

CRLF == <<13, 10>>

Digits == 48..57

\* str(n) for n >= 0
RECURSIVE FormatInt(_)
FormatInt(n) ==
    IF n < 10 THEN <<48 + n>> ELSE FormatInt(n \div 10) \o <<48 + (n % 10)>>

\* the value of a string of decimal digits
RECURSIVE ParseInt(_)
ParseInt(s) ==
    IF s = <<>> THEN 0
    ELSE 10 * ParseInt(SubSeq(s, 1, Len(s) - 1)) + (s[Len(s)] - 48)

\* a decimal integer literal of Python 3: digits, no leading zero unless zero
IntLiteral(s) ==
    /\ s # <<>>
    /\ \A i \in 1..Len(s) : s[i] \in Digits
    /\ \/ Len(s) = 1
       \/ s[1] # 48
       \/ \A i \in 1..Len(s) : s[i] = 48

\* ", ".join(str(x) for x in l)
RECURSIVE ReprItems(_)
ReprItems(l) ==
    IF l = <<>> THEN <<>>
    ELSE IF Len(l) = 1 THEN FormatInt(l[1])
    ELSE FormatInt(Head(l)) \o <<44, 32>> \o ReprItems(Tail(l))

\* repr of a list of ints, as MicroPython's print writes it
Repr(l) == <<91>> \o ReprItems(l) \o <<93>>

EvalRaise == [kind |-> "raise", val |-> <<>>]

\* eval(result), restricted to the texts that occur here: an integer
\* literal gives an int, a bracketed display of integer literals (blanks
\* around the items, a trailing comma allowed) gives a list, anything else
\* raises.
EvalText(t) ==
    LET u == strip(t) IN
    IF IntLiteral(u) THEN [kind |-> "int", val |-> <<ParseInt(u)>>]
    ELSE IF Len(u) >= 2 /\ u[1] = 91 /\ u[Len(u)] = 93
    THEN LET inner  == SubSeq(u, 2, Len(u) - 1)
             items0 == split(inner, 44)
             items  == IF Len(items0) >= 2 /\ strip(items0[Len(items0)]) = <<>>
                       THEN SubSeq(items0, 1, Len(items0) - 1)
                       ELSE items0
         IN IF strip(inner) = <<>> THEN [kind |-> "list", val |-> <<>>]
            ELSE IF \A i \in 1..Len(items) : IntLiteral(strip(items[i]))
            THEN [kind |-> "list",
                  val |-> [i \in 1..Len(items) |-> ParseInt(strip(items[i]))]]
            ELSE EvalRaise
    ELSE EvalRaise

Failed(o) == o.kind \in {"raise", "ioerror"}

\* scan that returns the text without evaluating it
ScanReturn_noeval(o) ==
    IF Failed(o) THEN [result |-> [kind |-> "list", val |-> <<>>], said |-> "Scan failed"]
    ELSE IF o.text # <<>>
    THEN [result |-> [kind |-> "text", val |-> o.text], said |-> ""]
    ELSE [result |-> [kind |-> "list", val |-> <<>>], said |-> ""]

\* scan that returns None from its except branch
ScanReturn_none(o) ==
    IF Failed(o) \/ (o.text # <<>> /\ EvalText(o.text).kind = "raise")
    THEN [result |-> [kind |-> "None", val |-> <<>>], said |-> "Scan failed"]
    ELSE IF o.text # <<>>
    THEN [result |-> EvalText(o.text), said |-> ""]
    ELSE [result |-> [kind |-> "list", val |-> <<>>], said |-> ""]

\* try: result = exec_raw(code); if result: return eval(result); return []
\* except Exception: print("Scan failed"); return []
ScanReturn(o) ==
    IF Failed(o) \/ (o.text # <<>> /\ EvalText(o.text).kind = "raise")
    THEN [result |-> [kind |-> "list", val |-> <<>>], said |-> "Scan failed"]
    ELSE IF o.text # <<>>
    THEN [result |-> EvalText(o.text), said |-> ""]
    ELSE [result |-> [kind |-> "list", val |-> <<>>], said |-> ""]

\* read_from_mem that returns "" from its except branch
ReadReturn_empty(o) ==
    IF Failed(o)
    THEN [result |-> [kind |-> "text", val |-> <<>>], said |-> "Read failed"]
    ELSE [result |-> [kind |-> "text", val |-> o.text], said |-> ""]

\* read_from_mem that strips the quotes of the literal
ReadReturn_unquote(o) ==
    IF Failed(o)
    THEN [result |-> [kind |-> "None", val |-> <<>>], said |-> "Read failed"]
    ELSE [result |-> [kind |-> "text",
                      val |-> SelectSeq(o.text, LAMBDA b : b # 39)],
          said |-> ""]

\* try: result = exec_raw(code); return result
\* except Exception: print("Read failed"); return None
ReadReturn(o) ==
    IF Failed(o)
    THEN [result |-> [kind |-> "None", val |-> <<>>], said |-> "Read failed"]
    ELSE [result |-> [kind |-> "text", val |-> o.text], said |-> ""]

\* write_to_mem whose "Wrote" line stands after the try block
WriteReturn_always(o) ==
    [result |-> [kind |-> "None", val |-> <<>>], said |-> "Wrote"]

\* try: exec_raw(code); print("Wrote ...")  except Exception: print("Write failed")
WriteReturn(o) ==
    [result |-> [kind |-> "None", val |-> <<>>],
     said |-> IF Failed(o) THEN "Write failed" ELSE "Wrote"]

\* entry of a facade method: the code line is built and exec_raw is called
Call(m, c) ==
    /\ pc = "idle"
    /\ execs < MaxCalls
    /\ execs' = execs + 1
    /\ method' = m
    /\ code' = c
    /\ caller' = "user"
    /\ pc' = "x_raw"
    /\ UNCHANGED <<tx, wire, rx, ret, outcome, log, stream, reply, printed,
                   errtext, replied, pend1, port, result, said, found, pin_vars>>
    /\ UNCHANGED station_vars

scan          == Call("scan", scan_code)
read_from_mem == Call("read_from_mem", read_code)
write_to_mem  == Call("write_to_mem", write_code)

\* self.ser.write(b'\x01') raises: the exception leaves exec_raw
exec_raw_raw_raises ==
    /\ pc = "x_raw"
    /\ outcome' = [kind |-> "ioerror", text |-> <<>>]
    /\ pc' = "x_done"
    /\ UNCHANGED <<caller, code, tx, wire, rx, ret, log, stream, reply, printed,
                   errtext, replied, pend1, execs, ext_vars>>

\* a failed write of the code that exec_raw swallows, returning ""
exec_raw_send_swallows ==
    /\ pc = "x_send"
    /\ outcome' = [kind |-> "return", text |-> <<>>]
    /\ pc' = "x_done"
    /\ UNCHANGED <<caller, code, tx, wire, rx, ret, log, stream, reply, printed,
                   errtext, replied, pend1, execs, ext_vars>>

\* self.ser.write(code + b'\x04') raises: the exception leaves exec_raw
exec_raw_send_raises ==
    /\ pc = "x_send"
    /\ outcome' = [kind |-> "ioerror", text |-> <<>>]
    /\ pc' = "x_done"
    /\ UNCHANGED <<caller, code, tx, wire, rx, ret, log, stream, reply, printed,
                   errtext, replied, pend1, execs, ext_vars>>

\* exec_raw has returned or raised inside the method's try block
Return(m, r) ==
    /\ pc = "x_done"
    /\ method = m
    /\ result' = r.result
    /\ said' = r.said
    /\ pc' = "f_done"
    /\ UNCHANGED <<caller, code, tx, wire, rx, ret, outcome, log, stream, reply,
                   printed, errtext, replied, pend1, execs, port, method, found,
                   pin_vars>>
    /\ UNCHANGED station_vars

scan_return          == Return("scan", ScanReturn(outcome))
read_from_mem_return == Return("read_from_mem", ReadReturn(outcome))
write_to_mem_return  == Return("write_to_mem", WriteReturn(outcome))

\* the caller has the value; the program is ready for its next call
facade_done ==
    /\ pc = "f_done"
    /\ pc' = "idle"
    /\ code' = <<>>
    /\ ret' = <<>>
    /\ outcome' = NoOutcome
    /\ log' = <<>>
    /\ stream' = <<>>
    /\ reply' = <<>>
    /\ printed' = <<>>
    /\ errtext' = <<>>
    /\ replied' = FALSE
    /\ method' = "none"
    /\ result' = NoResult
    /\ said' = ""
    /\ found' = NoFound
    /\ UNCHANGED <<caller, tx, wire, rx, pend1, execs, port, pin_vars>>
    /\ UNCHANGED station_vars

\* address lists the bus scan can find
AddrLists == {<<>>, <<8, 52>>, <<104>>}

\* bytes literals a register read can print: b'', b'\x05', b' '
Literals == {<<98, 39, 39>>, <<98, 39, 92, 120, 48, 53, 39>>, <<98, 39, 32, 39>>}

\* what print(i2c.scan()) can put on stdout: the list's repr and a line
\* end, or text that is no list: "8" and the cut-off "[8, "
ScanOuts ==
    {[text |-> Repr(l) \o CRLF, sem |-> "list", val |-> l] : l \in AddrLists}
        \cup {[text |-> <<56>>, sem |-> "int", val |-> <<8>>],
              [text |-> <<91, 56, 44, 32>>, sem |-> "bad", val |-> <<>>]}

\* what print(i2c.readfrom_mem(...)) can put on stdout
ReadOuts ==
    {[text |-> l \o e, sem |-> "bytes", val |-> l] : l \in Literals, e \in {<<>>, CRLF}}

\* i2c.writeto_mem(...) prints nothing
WriteOuts == {[text |-> <<>>, sem |-> "nothing", val |-> <<>>]}

OutsFor(c) ==
    IF c = scan_code THEN ScanOuts
    ELSE IF c = read_code THEN ReadOuts
    ELSE WriteOuts

\* The remote takes the next written byte string; on Ctrl+D it runs the
\* code line in front of it and prints the reply.
remote_i2c ==
    /\ tx # <<>>
    /\ tx' = Tail(tx)
    /\ IF EOT \in Range(Head(tx))
       THEN \E o \in OutsFor(SubSeq(Head(tx), 1, Len(Head(tx)) - 1)), e \in Errs :
                /\ wire' = wire \o BannersFor(Head(tx)) \o Resp(o.text, e)
                /\ stream' = stream \o BannersFor(Head(tx)) \o Resp(o.text, e)
                /\ reply' = Resp(o.text, e)
                /\ printed' = o.text
                /\ errtext' = e
                /\ replied' = TRUE
                /\ found' = [sem |-> o.sem, val |-> o.val]
       ELSE /\ wire' = wire \o BannersFor(Head(tx))
            /\ stream' = stream \o BannersFor(Head(tx))
            /\ UNCHANGED <<reply, printed, errtext, replied, found>>
    /\ UNCHANGED <<pc, caller, code, rx, ret, outcome, log, pend1, execs,
                   port, method, result, said, pin_vars>>
    /\ UNCHANGED station_vars

\* a constructed ESPI2C: raw mode entered, nothing in flight
FacadeInit ==
    /\ pc = "idle"
    /\ caller = "user"
    /\ code = <<>>
    /\ tx = <<>>
    /\ wire = <<>>
    /\ rx = <<>>
    /\ ret = <<>>
    /\ outcome = NoOutcome
    /\ log = <<>>
    /\ stream = <<>>
    /\ reply = <<>>
    /\ printed = <<>>
    /\ errtext = <<>>
    /\ replied = FALSE
    /\ pend1 = <<>>
    /\ execs = 0
    /\ port = "open"
    /\ FacadeIdle
    /\ StationIdle
    /\ PinIdle
    /\ defined = TRUE

FacadeNext ==
    \/ scan
    \/ read_from_mem
    \/ write_to_mem
    \/ exec_raw_raw
    \/ exec_raw_raw_raises
    \/ exec_raw_clear
    \/ exec_raw_send
    \/ exec_raw_send_raises
    \/ exec_raw_read
    \/ exec_raw_parse
    \/ scan_return
    \/ read_from_mem_return
    \/ write_to_mem_return
    \/ facade_done
    \/ remote_i2c
    \/ serial_deliver

FacadeSpec == FacadeInit /\ [][FacadeNext]_vars

\* a method has returned after a reply that arrived whole and alone
Returned(m) == pc = "f_done" /\ method = m /\ CleanReply /\ outcome.kind # "ioerror"

\* the stderr segment of the reply is empty or blank
NoRemoteError == strip(errtext) = <<>>

\* C11: when the remote printed the repr of the address list it found and
\* no error text, scan returns exactly that list, element for element and
\* in order; the empty list comes back as an empty list without a failure
\* line.
C11_ScanRoundTrip ==
    (Returned("scan") /\ NoRemoteError /\ found.sem = "list")
        => /\ result = [kind |-> "list", val |-> found.val]
           /\ said = ""

\* a scan returned the two addresses the remote found
C11_Witness ==
    /\ Returned("scan")
    /\ NoRemoteError
    /\ found = [sem |-> "list", val |-> <<8, 52>>]
    /\ result.val = <<8, 52>>

\* values scan returns when it succeeds
ScanValues == {"list", "int", "text"}

\* C12: when the remote's stdout is not the text of a list of integers,
\* scan returns a failure, never a value a successful scan returns.
C12_UnparsableIsFailure ==
    (Returned("scan") /\ NoRemoteError /\ found.sem \in {"int", "bad"})
        => result.kind \notin ScanValues

\* C12 as the code has it: text eval rejects gives the "Scan failed" line
\* and the empty list; text that evaluates to an integer is returned as that
\* integer without a failure line.
C12_UnparsableGivesEmpty ==
    (Returned("scan") /\ NoRemoteError)
        => /\ found.sem = "bad" =>
                (result = [kind |-> "list", val |-> <<>>] /\ said = "Scan failed")
           /\ found.sem = "int" =>
                (result = [kind |-> "int", val |-> found.val] /\ said = "")

\* a scan got the cut-off text "[8, " and returned
C12_Witness ==
    /\ Returned("scan")
    /\ NoRemoteError
    /\ found.sem = "bad"
    /\ printed = <<91, 56, 44, 32>>
    /\ said = "Scan failed"

\* C13: every value scan returns is a sequence of integers: the remote's
\* text is read as a list literal only, never evaluated as an expression of
\* another kind.
C13_OnlyIntLists ==
    (pc = "f_done" /\ method = "scan") => result.kind = "list"

\* values each method returns when it succeeds
SuccessValues(m) ==
    IF m = "scan" THEN ScanValues
    ELSE IF m = "read_from_mem" THEN {"text"}
    ELSE {"None"}

\* the line each method prints in its except branch
FailLine(m) ==
    IF m = "scan" THEN "Scan failed"
    ELSE IF m = "read_from_mem" THEN "Read failed"
    ELSE "Write failed"

\* C14: a reply with a non-empty stderr segment makes scan, read_from_mem
\* and write_to_mem return a value that no successful call returns.
C14_RemoteErrorIsFailure ==
    (Returned(method) /\ errtext # <<>>)
        => result.kind \notin SuccessValues(method)

\* C14 as the code has it: a stderr segment with a non-blank character makes
\* each method print its failure line; read_from_mem then returns None, which
\* no successful read returns, scan returns the empty list and write_to_mem
\* returns None as it does on success.  A blank stderr segment is no error.
C14_RemoteErrorPrinted ==
    Returned(method) =>
        /\ ~NoRemoteError =>
            /\ said = FailLine(method)
            /\ result = IF method = "scan"
                        THEN [kind |-> "list", val |-> <<>>]
                        ELSE [kind |-> "None", val |-> <<>>]
        /\ (NoRemoteError /\ method = "read_from_mem") =>
            (result.kind = "text" /\ said = "")
        /\ (NoRemoteError /\ method = "write_to_mem") =>
            (result.kind = "None" /\ said = "Wrote")

\* a register read returned after a reply with error text
C14_Witness ==
    /\ Returned("read_from_mem")
    /\ errtext = <<97>>
    /\ result.kind = "None"
    /\ said = "Read failed"

\* the code and its Ctrl+D went out on the port
CodeWritten ==
    \E i \in 1..Len(log) : log[i].op = "write" /\ EOT \in Range(log[i].data)

\* the method has returned although a write to the port failed before or
\* while its code was submitted
WriteFailed == pc = "f_done" /\ ~CodeWritten

\* C19: when a write to the port fails while the code is submitted, the
\* method gives its caller a failure, never a value a successful call
\* returns such as the empty scan result.
C19_WriteFailureSurfaced ==
    WriteFailed => result.kind \notin SuccessValues(method)

\* C19 as the code has it: the exception leaves exec_raw and is caught by
\* the method, which prints its failure line; scan returns the empty list,
\* read_from_mem and write_to_mem return None.
C19_WriteFailureCaught ==
    WriteFailed =>
        /\ said = FailLine(method)
        /\ result = IF method = "scan"
                    THEN [kind |-> "list", val |-> <<>>]
                    ELSE [kind |-> "None", val |-> <<>>]

\* the write of the scan's code failed and scan returned
C19_Witness ==
    /\ WriteFailed
    /\ method = "scan"
    /\ log = <<Write(<<SOH>>), ReadAll>>
    /\ result = [kind |-> "list", val |-> <<>>]

\* C20: read_from_mem returns the printed bytes literal as text, character
\* for character and not decoded into bytes: the literal b'\x05' comes back
\* as those seven characters.
C20_ReadReturnsLiteral ==
    (Returned("read_from_mem") /\ NoRemoteError)
        => /\ result = [kind |-> "text", val |-> found.val]
           /\ said = ""

\* a register read returned the literal b'\x05' that print ended with a
\* line end
C20_Witness ==
    /\ Returned("read_from_mem")
    /\ NoRemoteError
    /\ printed = <<98, 39, 92, 120, 48, 53, 39>> \o CRLF
    /\ result.val = <<98, 39, 92, 120, 48, 53, 39>>

----------------------------------------------------------------------------
(* ESP32Controller.toggle_pin and the set_pin helper of ESP_INIT_CODE *)

\* toggle_pin calls made in one run
MaxToggles == 2

\* toggle_pin calls made in one run against a remote that lost the helper
MaxLostToggles == 1

\* GPIO numbers the buttons can name
Pins == {5, 48}

Traceback_ == <<84, 114, 97, 99, 101, 98, 97, 99, 107>>   \* "Traceback"
Error_     == <<69, 114, 114, 111, 114>>                  \* "Error"
NameError_ == <<78, 97, 109, 101>> \o Error_              \* "NameError"
set_pin_   == <<115, 101, 116, 95, 112, 105, 110, 40>>    \* "set_pin("

\* t in s
Contains(s, t) ==
    \E i \in 1..(Len(s) - Len(t) + 1) : SubSeq(s, i, i + Len(t) - 1) = t

\* 'Traceback' in decoded or 'Error' in decoded or 'NameError' in decoded
HasMarker(b) ==
    LET decoded == decode_replace(b) IN
    \/ Contains(decoded, Traceback_)
    \/ Contains(decoded, Error_)
    \/ Contains(decoded, NameError_)

\* f"set_pin({pin}, {val})\n"
FormatCmd(pin, val) ==
    set_pin_ \o FormatInt(pin) \o <<44, 32>> \o FormatInt(val) \o <<41, 10>>

\* val = 1 if state else 0
ValOf(state) == IF state THEN 1 ELSE 0

\* The remote reads a code line: a call set_pin(<int>, <int>) gives its two
\* arguments, any other text is no call of the helper.
ParseCmd(c) ==
    LET u == strip(c) IN
    IF startswith(u, set_pin_) /\ endswith(u, <<41>>)
    THEN LET args == split(SubSeq(u, Len(set_pin_) + 1, Len(u) - 1), 44)
         IN IF Len(args) = 2 /\ \A i \in 1..2 : IntLiteral(strip(args[i]))
            THEN [ok |-> TRUE, pin_num |-> ParseInt(strip(args[1])),
                  state |-> ParseInt(strip(args[2]))]
            ELSE [ok |-> FALSE, pin_num |-> 0, state |-> 0]
    ELSE [ok |-> FALSE, pin_num |-> 0, state |-> 0]

Config(p)   == [op |-> "Pin.OUT", pin |-> p, val |-> 0]
Value(p, v) == [op |-> "value", pin |-> p, val |-> v]

\* set_pin without the test of the cache
set_pin_nocache(pin_num, state) ==
    <<Config(pin_num), Value(pin_num, IF state # 0 THEN 1 ELSE 0)>>

\* def set_pin(pin_num, state): the pin operations of one call
\*   if pin_num not in gpios: gpios[pin_num] = machine.Pin(pin_num, OUT)
\*   gpios[pin_num].value(1 if state else 0)
set_pin(pin_num, state) ==
    (IF pin_num \notin gpios THEN <<Config(pin_num)>> ELSE <<>>)
        \o <<Value(pin_num, IF state # 0 THEN 1 ELSE 0)>>

\* what the remote prints on stderr when the code names something it
\* does not have
NameErrorText == Traceback_ \o <<10>> \o NameError_

\* def toggle_pin(self, pin, state): entered
toggle_pin ==
    /\ pc = "idle"
    /\ execs < (IF defined THEN MaxToggles ELSE MaxLostToggles)
    /\ \E p \in Pins, st \in BOOLEAN :
        reqs' = Append(reqs, [pin |-> p, state |-> st])
    /\ execs' = execs + 1
    /\ pc' = "t_raw"
    /\ UNCHANGED <<caller, code, tx, wire, rx, ret, outcome, log, stream, reply,
                   printed, errtext, replied, pend1, port, method, result, said,
                   found, raw_bytes, reports, defined, gpios, hw, rbuf, replies>>
    /\ UNCHANGED station_vars

\* a step of toggle_pin that writes bytes to the port
t_write(bytes, next) ==
    /\ tx' = Append(tx, bytes)
    /\ pc' = next
    /\ UNCHANGED <<caller, code, wire, rx, ret, outcome, log, stream, reply,
                   printed, errtext, replied, pend1, execs, ext_vars>>

\* self.ser.write(b'\x01')
toggle_pin_raw == pc = "t_raw" /\ t_write(<<SOH>>, "t_clear")

\* self.ser.read_all()  # Discard "OK"
toggle_pin_clear ==
    /\ pc = "t_clear"
    /\ rx' = <<>>
    /\ pc' = "t_cmd"
    /\ UNCHANGED <<caller, code, tx, wire, ret, outcome, log, stream, reply,
                   printed, errtext, replied, pend1, execs, ext_vars>>

\* self.ser.write(cmd.encode('utf-8'))
toggle_pin_cmd ==
    /\ pc = "t_cmd"
    /\ LET r == reqs[Len(reqs)] IN
        t_write(FormatCmd(r.pin, ValOf(r.state)), "t_exec")

\* self.ser.write(b'\x04')
toggle_pin_exec == pc = "t_exec" /\ t_write(<<EOT>>, "t_read")

\* raw_bytes = self.ser.read_all(); if raw_bytes: ... print("ESP32 ERROR")
toggle_pin_read ==
    /\ pc = "t_read"
    /\ raw_bytes' = rx
    /\ rx' = <<>>
    /\ reports' = Append(reports, rx # <<>> /\ HasMarker(rx))
    /\ pc' = "t_done"
    /\ UNCHANGED <<caller, code, tx, wire, ret, outcome, log, stream, reply,
                   printed, errtext, replied, pend1, execs, port, method, result,
                   said, found, reqs, defined, gpios, hw, rbuf, replies>>
    /\ UNCHANGED station_vars

\* toggle_pin returns to the button handler
toggle_pin_return ==
    /\ pc = "t_done"
    /\ pc' = "idle"
    /\ raw_bytes' = <<>>
    /\ UNCHANGED <<caller, code, tx, wire, rx, ret, outcome, log, stream, reply,
                   printed, errtext, replied, pend1, execs, port, method, result,
                   said, found, reqs, reports, defined, gpios, hw, rbuf, replies>>
    /\ UNCHANGED station_vars

\* The remote takes the next written byte string: Ctrl+A prints the banner
\* and empties the code buffer, Ctrl+D runs the buffered code and prints
\* the reply, anything else is buffered.
remote_pin ==
    /\ tx # <<>>
    /\ tx' = Tail(tx)
    /\ IF Head(tx) = <<SOH>>
       THEN /\ wire' = wire \o Banner
            /\ rbuf' = <<>>
            /\ UNCHANGED <<gpios, hw, replies>>
       ELSE IF Head(tx) = <<EOT>>
       THEN LET c   == ParseCmd(rbuf)
                ran == defined /\ c.ok
                err == IF ran THEN <<>> ELSE NameErrorText
            IN /\ wire' = wire \o Resp(<<>>, err)
               /\ rbuf' = <<>>
               /\ replies' = Append(replies, err)
               /\ hw' = IF ran THEN hw \o set_pin(c.pin_num, c.state) ELSE hw
               /\ gpios' = IF ran THEN gpios \cup {c.pin_num} ELSE gpios
       ELSE /\ rbuf' = rbuf \o Head(tx)
            /\ UNCHANGED <<wire, gpios, hw, replies>>
    /\ UNCHANGED <<pc, caller, code, rx, ret, outcome, log, stream, reply,
                   printed, errtext, replied, pend1, execs, port, method, result,
                   said, found, reqs, raw_bytes, reports, defined>>
    /\ UNCHANGED station_vars

\* a constructed ESP32Controller; the remote has the helper, or has lost it
PinInit ==
    /\ pc = "idle"
    /\ caller = "user"
    /\ code = <<>>
    /\ tx = <<>>
    /\ wire = <<>>
    /\ rx = <<>>
    /\ ret = <<>>
    /\ outcome = NoOutcome
    /\ log = <<>>
    /\ stream = <<>>
    /\ reply = <<>>
    /\ printed = <<>>
    /\ errtext = <<>>
    /\ replied = FALSE
    /\ pend1 = <<>>
    /\ execs = 0
    /\ port = "open"
    /\ FacadeIdle
    /\ StationIdle
    /\ PinIdle
    /\ defined \in BOOLEAN

PinNext ==
    \/ toggle_pin
    \/ toggle_pin_raw
    \/ toggle_pin_clear
    \/ toggle_pin_cmd
    \/ toggle_pin_exec
    \/ toggle_pin_read
    \/ toggle_pin_return
    \/ remote_pin
    \/ serial_deliver

PinSpec == PinInit /\ [][PinNext]_vars

PinTypeOK ==
    /\ pc \in {"idle", "t_raw", "t_clear", "t_cmd", "t_exec", "t_read", "t_done"}
    /\ execs \in 0..MaxToggles
    /\ Len(reqs) = execs
    /\ Len(reports) <= Len(reqs)
    /\ Len(replies) <= Len(reqs)
    /\ gpios \subseteq Pins

\* every toggle_pin call has returned and every byte written or printed
\* has reached the other side
Quiet == pc = "idle" /\ tx = <<>> /\ wire = <<>>

\* C15: whenever the reply's bytes arrive, a toggle_pin call whose reply is
\* OK 0x04 0x04 '>' reports no error and a call whose reply carries a
\* Traceback in its stderr segment reports one.
C15_ReportFollowsReply ==
    Quiet => \A i \in 1..Len(reports) :
                reports[i] = Contains(replies[i], Traceback_)

\* C16: when toggle_pin returns after the remote replied to its command, it
\* has logged an error exactly if the reply's stderr segment is non-empty
\* and holds one of the markers.
C16_LogsIffMarker ==
    (pc = "t_done" /\ Len(replies) = Len(reports))
        => (reports[Len(reports)] =
                (replies[Len(replies)] # <<>> /\ HasMarker(replies[Len(replies)])))

\* the level writes among the pin operations
LevelWrites == SelectSeq(hw, LAMBDA o : o.op = "value")

\* C17: with the helper loaded, each pin is made an output at most once and
\* before any level is written to it, and the level writes are those of the
\* calls, one per executed call in call order, with value 1 for a true state
\* and 0 for a false one.
C17_PinCache ==
    defined =>
        /\ \A p \in Pins : Cardinality({i \in 1..Len(hw) : hw[i] = Config(p)}) <= 1
        /\ \A i \in 1..Len(hw) :
                hw[i].op = "value" => \E j \in 1..(i - 1) : hw[j] = Config(hw[i].pin)
        /\ Len(LevelWrites) = Len(replies)
        /\ \A i \in 1..Len(LevelWrites) :
                LevelWrites[i] = Value(reqs[i].pin, ValOf(reqs[i].state))
        /\ (tx = <<>> /\ pc \in {"idle", "t_read", "t_done"})
                => Len(LevelWrites) = Len(reqs)

\* pin 48 was switched on and then off: one configuration, two level writes
C17_Witness ==
    /\ defined
    /\ Quiet
    /\ hw = <<Config(48), Value(48, 1), Value(48, 0)>>

\* write_to_mem has returned
WriteDone == pc = "f_done" /\ method = "write_to_mem"

\* C21: write_to_mem prints its "Wrote" line exactly when exec_raw met no
\* transport error and the reply's stderr segment is empty.
C21_WroteIffEmptyStderr ==
    WriteDone => (said = "Wrote" <=> (CodeWritten /\ errtext = <<>>))

\* C21 as the code has it: the "Wrote" line is printed exactly when no write
\* to the port failed and the stderr segment is empty or only whitespace.
C21_WroteIffBlankStderr ==
    WriteDone =>
        /\ said = "Wrote" <=> (CodeWritten /\ NoRemoteError)
        /\ said = "Write failed" <=> ~(CodeWritten /\ NoRemoteError)

\* a write was reported as done although the stderr segment held a line end
C21_Witness ==
    /\ WriteDone
    /\ errtext = <<10>>
    /\ said = "Wrote"

----------------------------------------------------------------------------
(* Decoding of the reply: exec_raw's parse and toggle_pin's check applied *)
(* to replies whose segments hold bytes that are not UTF-8              *)

\* reply segments with the characters Python decodes them to: "", "a",
\* a line end, 0xFF, "e" with acute accent, a lead byte without its
\* continuation, an invalid byte inside text, a lone continuation byte
\* after a blank, and "Error" followed by 0xFF
Texts ==
    {[bytes |-> <<>>,             chars |-> <<>>],
     [bytes |-> <<97>>,           chars |-> <<97>>],
     [bytes |-> <<10>>,           chars |-> <<10>>],
     [bytes |-> <<255>>,          chars |-> <<REPLACEMENT>>],
     [bytes |-> <<195, 169>>,     chars |-> <<233>>],
     [bytes |-> <<195, 97>>,      chars |-> <<REPLACEMENT, 97>>],
     [bytes |-> <<97, 255, 10>>,  chars |-> <<97, REPLACEMENT, 10>>],
     [bytes |-> <<32, 128>>,      chars |-> <<32, REPLACEMENT>>],
     [bytes |-> Error_ \o <<255>>, chars |-> Error_ \o <<REPLACEMENT>>]}

\* exec_raw stands behind its read loop with such a reply, or toggle_pin
\* stands before its read with such a reply in the input buffer
DecodeInit ==
    /\ caller = "user"
    /\ code = <<>>
    /\ tx = <<>>
    /\ wire = <<>>
    /\ outcome = NoOutcome
    /\ log = <<>>
    /\ stream = <<>>
    /\ reply = <<>>
    /\ printed = <<>>
    /\ errtext = <<>>
    /\ replied = FALSE
    /\ pend1 = <<>>
    /\ execs = 1
    /\ port = "open"
    /\ FacadeIdle
    /\ StationIdle
    /\ raw_bytes = <<>>
    /\ reports = <<>>
    /\ gpios = {}
    /\ hw = <<>>
    /\ rbuf = <<>>
    /\ replies = <<>>
    /\ defined = TRUE
    /\ \/ /\ pc = "x_parse"
          /\ \E o \in Texts, e \in Texts : ret = Resp(o.bytes, e.bytes)
          /\ rx = <<>>
          /\ reqs = <<>>
       \/ /\ pc = "t_read"
          /\ \E e \in Texts : rx = Resp(<<>>, e.bytes)
          /\ ret = <<>>
          /\ reqs = <<[pin |-> 48, state |-> TRUE]>>

DecodeNext ==
    \/ exec_raw_parse
    \/ toggle_pin_read

DecodeSpec == DecodeInit /\ [][DecodeNext]_vars

\* C22: bytes that are not UTF-8 never make exec_raw or toggle_pin fail:
\* each segment is decoded with U+FFFD in place of the invalid bytes, and
\* the call gives its usual result for the decoded text, a RuntimeError for
\* a non-blank stderr segment and the trimmed stdout otherwise; toggle_pin
\* logs exactly when the decoded text holds a marker.
C22_InvalidUtf8Tolerated ==
    /\ pc = "x_done" =>
        \A o \in Texts, e \in Texts :
            ret = Resp(o.bytes, e.bytes) =>
                outcome = IF strip(e.chars) # <<>>
                          THEN [kind |-> "raise", text |-> strip(e.chars)]
                          ELSE [kind |-> "return", text |-> rstrip(o.chars)]
    /\ pc = "t_done" =>
        \A e \in Texts :
            raw_bytes = Resp(<<>>, e.bytes) =>
                reports = <<Contains(e.chars, Error_)>>

\* exec_raw returned text with a replacement character in it
C22_Witness ==
    /\ pc = "x_done"
    /\ ret = Resp(<<97, 255, 10>>, <<10>>)
    /\ outcome = [kind |-> "return", text |-> <<97, REPLACEMENT>>]

----------------------------------------------------------------------------
(* fannoflow.compute_flow.  The numbers are ordinal levels: what matters *)
(* here is which branch returns and what the returned dict holds.       *)

\* the variables of the programs modelled above
others == <<pc, caller, code, tx, wire, rx, ret, outcome, log, stream, reply,
            printed, errtext, replied, pend1, execs, port, method, result,
            said, found, pin_vars>>

\* none of the programs modelled above runs
OthersIdle ==
    /\ caller = "user"
    /\ code = <<>>
    /\ tx = <<>>
    /\ wire = <<>>
    /\ rx = <<>>
    /\ ret = <<>>
    /\ outcome = NoOutcome
    /\ log = <<>>
    /\ stream = <<>>
    /\ reply = <<>>
    /\ printed = <<>>
    /\ errtext = <<>>
    /\ replied = FALSE
    /\ pend1 = <<>>
    /\ execs = 0
    /\ port = "open"
    /\ FacadeIdle
    /\ PinIdle
    /\ defined = TRUE

\* pressures and Mach numbers below 1 take the levels 1..MaxLevel
MaxLevel == 3
Levels   == 1..MaxLevel

\* Mach 1.0, above every subsonic level
MachOne == MaxLevel + 1

\* the keys the docstring lists
DocKeys == {"Q_std", "Q_slpm", "m_dot", "M_inlet", "M_outlet", "choked", "P_exit"}

\* the keys of the dict literal of the choked branch
ChokedKeys == {"Q_std", "Q_m3ps", "m_dot", "M_inlet", "M_outlet", "choked", "P_exit"}

\* the keys of the dict literal of the subsonic branch
SubsonicKeys == {"Q_std", "Q_slpm", "m_dot", "M_inlet", "M_outlet", "choked", "P_exit"}

\* the keys of the dict returned when a solver raises ValueError
ErrorKeys == {"error", "Q_std"}

\* compute_flow entered with outlet pressure p
FlowStart(p) ==
    [pc |-> "step1", P_outlet |-> p, M1_choked |-> 0, P_star |-> 0,
     keys |-> {}, choked |-> "unset", M_inlet |-> 0, M_outlet |-> 0, P_exit |-> 0]

\* return {...}
FlowReturn(f, k, c, mi, mo, pe) ==
    [f EXCEPT !.pc = "returned", !.keys = k, !.choked = c, !.M_inlet = mi,
              !.M_outlet = mo, !.P_exit = pe]

\* Step 1: root_scalar(choked_residual, ...) finds the inlet Mach number
\* of the choked flow, from which P_star follows, or raises ValueError.
flow_choked_root ==
    /\ flow.pc = "step1"
    /\ \/ flow' = FlowReturn(flow, ErrorKeys, "unset", 0, 0, 0)
       \/ \E m \in Levels, ps \in Levels :
            flow' = [flow EXCEPT !.pc = "step2", !.M1_choked = m, !.P_star = ps]
    /\ UNCHANGED <<others, gui, link, tk, cam>>

\* Step 2: if P_star >= P_outlet_pa: return the choked result
flow_check_choked ==
    /\ flow.pc = "step2"
    /\ flow' = IF flow.P_star >= flow.P_outlet
               THEN FlowReturn(flow, ChokedKeys, "True", flow.M1_choked,
                               MachOne, flow.P_star)
               ELSE [flow EXCEPT !.pc = "step3"]
    /\ UNCHANGED <<others, gui, link, tk, cam>>

\* Step 3: root_scalar(subsonic_residual, bracket=[1e-4, M1_choked]) finds
\* the inlet Mach number, the outlet one follows, or ValueError is raised.
flow_subsonic ==
    /\ flow.pc = "step3"
    /\ \/ flow' = FlowReturn(flow, ErrorKeys, "unset", 0, 0, 0)
       \/ \E m1 \in 1..flow.M1_choked, m2 \in Levels :
            /\ m2 >= m1
            /\ flow' = FlowReturn(flow, SubsonicKeys, "False", m1, m2,
                                  flow.P_outlet)
    /\ UNCHANGED <<others, gui, link, tk, cam>>

FlowInit ==
    /\ OthersIdle
    /\ pc = "idle"
    /\ gui = NewGui
    /\ link = NewLink
    /\ tk = NewTk
    /\ cam = NewCam
    /\ \E p \in Levels : flow = FlowStart(p)

FlowNext ==
    \/ flow_choked_root
    \/ flow_check_choked
    \/ flow_subsonic

FlowSpec == FlowInit /\ [][FlowNext]_vars

\* C23: every dict compute_flow returns has all the keys its docstring
\* lists, on the choked branch as on the subsonic one.
C23_AllDocumentedKeys ==
    flow.pc = "returned" => DocKeys \subseteq flow.keys

----------------------------------------------------------------------------
(* ESP32Controller.__init__ and the __main__ block of espgui.py *)

SyntaxError_ == <<83, 121, 110, 116, 97, 120>> \o Error_    \* "SyntaxError"

\* ESP_INIT_CODE.strip() + b'\n', abbreviated to its first and last line
ESP_INIT_CODE == <<105, 10, 118, 10>>

\* bytes.decode('utf-8', errors='ignore'): invalid bytes are dropped
decode_ignore(b) == SelectSeq(decode_replace(b), LAMBDA c : c # REPLACEMENT)

\* 'Traceback' in response or 'Error' in response or 'SyntaxError' in response
HasInitMarker(b) ==
    LET response == decode_ignore(b) IN
    \/ Contains(response, Traceback_)
    \/ Contains(response, Error_)
    \/ Contains(response, SyntaxError_)

\* what the remote prints on stderr when the injected code fails
InitErrorText == Traceback_ \o <<10>> \o Error_

\* a step of __init__ that writes bytes to the port
i_write(bytes, next) ==
    /\ tx' = Append(tx, bytes)
    /\ pc' = next
    /\ UNCHANGED <<caller, code, wire, rx, ret, outcome, log, stream, reply,
                   printed, errtext, replied, pend1, execs, ext_vars>>

\* self.ser.write(b'\x03')
init_stop == pc = "i_stop" /\ i_write(<<ETX>>, "i_raw")

\* self.ser.write(b'\x01')
init_raw == pc = "i_raw" /\ i_write(<<SOH>>, "i_clear")

\* self.ser.read_all()
init_clear ==
    /\ pc = "i_clear"
    /\ rx' = <<>>
    /\ pc' = "i_code"
    /\ UNCHANGED <<caller, code, tx, wire, ret, outcome, log, stream, reply,
                   printed, errtext, replied, pend1, execs, ext_vars>>

\* self.ser.write(ESP_INIT_CODE.strip() + b'\n')
init_code_write == pc = "i_code" /\ i_write(ESP_INIT_CODE, "i_exec")

\* self.ser.write(b'\x04')
init_exec == pc = "i_exec" /\ i_write(<<EOT>>, "i_read")

\* response = self.ser.read_all().decode(...); a marker in it raises
\* ConnectionError, which __main__ catches and the program ends; without a
\* marker the constructor returns and root.mainloop() runs.
init_check ==
    /\ pc = "i_read"
    /\ rx' = <<>>
    /\ pc' = IF HasInitMarker(rx) THEN "shutdown" ELSE "mainloop"
    /\ UNCHANGED <<caller, code, tx, wire, ret, outcome, log, stream, reply,
                   printed, errtext, replied, pend1, execs, ext_vars>>

\* The remote takes the next written byte string: Ctrl+C prints nothing,
\* Ctrl+A prints the banner, Ctrl+D runs the buffered code, which defines
\* the helper or fails with a traceback.
remote_init ==
    /\ tx # <<>>
    /\ tx' = Tail(tx)
    /\ IF Head(tx) = <<ETX>>
       THEN UNCHANGED <<wire, rbuf, replies, defined>>
       ELSE IF Head(tx) = <<SOH>>
       THEN /\ wire' = wire \o Banner
            /\ rbuf' = <<>>
            /\ UNCHANGED <<replies, defined>>
       ELSE IF Head(tx) = <<EOT>>
       THEN \E ok \in BOOLEAN :
               LET err == IF ok THEN <<>> ELSE InitErrorText IN
               /\ defined' = ok
               /\ replies' = Append(replies, err)
               /\ wire' = wire \o Resp(<<>>, err)
               /\ rbuf' = <<>>
       ELSE /\ rbuf' = rbuf \o Head(tx)
            /\ UNCHANGED <<wire, replies, defined>>
    /\ UNCHANGED <<pc, caller, code, rx, ret, outcome, log, stream, reply,
                   printed, errtext, replied, pend1, execs, port, method, result,
                   said, found, reqs, raw_bytes, reports, gpios, hw, station_vars>>

\* serial.Serial(port, ...) has opened the port
CtorInit ==
    /\ pc = "i_stop"
    /\ caller = "user"
    /\ code = <<>>
    /\ tx = <<>>
    /\ wire = <<>>
    /\ rx = <<>>
    /\ ret = <<>>
    /\ outcome = NoOutcome
    /\ log = <<>>
    /\ stream = <<>>
    /\ reply = <<>>
    /\ printed = <<>>
    /\ errtext = <<>>
    /\ replied = FALSE
    /\ pend1 = <<>>
    /\ execs = 0
    /\ port = "open"
    /\ FacadeIdle
    /\ PinIdle
    /\ StationIdle
    /\ defined = FALSE

CtorNext ==
    \/ init_stop
    \/ init_raw
    \/ init_clear
    \/ init_code_write
    \/ init_exec
    \/ init_check
    \/ remote_init
    \/ serial_deliver

CtorSpec == CtorInit /\ [][CtorNext]_vars

\* C24: when the remote's reply to the injected code holds an error marker,
\* the constructor raises and root.mainloop() is never started, whenever
\* the reply's bytes arrive.
C24_InitErrorStopsGui ==
    pc = "mainloop" => \A i \in 1..Len(replies) : ~HasInitMarker(replies[i])

----------------------------------------------------------------------------
(* MotorControlGUI: the target slider.  Positions are in tenths. *)

\* largest target the +/- buttons are held to
MaxTarget == 106

\* what can be typed into the target entry
EntryVals == {0, MaxTarget, 0 - MaxTarget, 2 * MaxTarget, 0 - 2 * MaxTarget}

\* start_repeat(-0.1), start_repeat(0.1)
Deltas == {0 - 1, 1}

\* autoscale whose lower bound gets the margin with the wrong sign
autoscale_plus(g, value) ==
    LET lo == IF value < g.min_bound THEN value + margin ELSE g.min_bound
        hi == IF value > g.max_bound THEN value + margin ELSE g.max_bound
    IN [g EXCEPT !.min_bound = lo, !.max_bound = hi]

\* def autoscale(self, value): the bounds after the call
autoscale(g, value) ==
    LET lo == IF value < g.min_bound THEN value - margin ELSE g.min_bound
        hi == IF value > g.max_bound THEN value + margin ELSE g.max_bound
    IN [g EXCEPT !.min_bound = lo, !.max_bound = hi]

\* def send_target(self): a message goes out only while connected, with
\* actual_target = target_pos + (offset if offset else 0.0)
send_target(g) ==
    IF g.connected
    THEN [g EXCEPT !.sent_any = TRUE,
                   !.sent_val = g.target_pos
                                + (IF g.has_offset /\ g.offset # 0 THEN g.offset ELSE 0)]
    ELSE g

\* def set_target_programmatically(self, val): the fields of self after
\* the call; the command of target_scale.set(val) is an event of its own
set_target_programmatically(g, val) ==
    send_target(autoscale([g EXCEPT !.ignore_slider_event = TRUE,
                                    !.target_pos = val], val))

\* def on_entry_change(self, event)
on_entry_change ==
    /\ \E val \in EntryVals : gui' = set_target_programmatically(gui, val)
    /\ UNCHANGED <<others, flow, link, tk, cam>>

\* def increment_target(self, delta), from start_repeat
increment_target ==
    /\ \E delta \in Deltas :
        LET new_val == gui.target_pos + delta IN
        /\ new_val <= MaxTarget
        /\ new_val >= 0 - MaxTarget
        /\ gui' = set_target_programmatically(gui, new_val)
    /\ UNCHANGED <<others, flow, link, tk, cam>>

\* def enable_slider_events(self), 10 ms after a programmatic update
enable_slider_events ==
    /\ gui.ignore_slider_event
    /\ gui' = [gui EXCEPT !.ignore_slider_event = FALSE]
    /\ UNCHANGED <<others, flow, link, tk, cam>>

\* def on_slider_change(self, val): the user drags the slider, which the
\* widget keeps between from_ and to
on_slider_change ==
    /\ ~gui.ignore_slider_event
    /\ \E val \in {gui.min_bound, 0, gui.max_bound} :
        gui' = send_target([gui EXCEPT !.target_pos = val])
    /\ UNCHANGED <<others, flow, link, tk, cam>>

\* the window is up; the serial thread has connected or not, and has an
\* offset or not
SliderInit ==
    /\ OthersIdle
    /\ pc = "idle"
    /\ flow = NoFlow
    /\ link = NewLink
    /\ tk = NewTk
    /\ cam = NewCam
    /\ \E c \in BOOLEAN, h \in BOOLEAN, o \in {0, 7} :
        /\ (~h => o = 0)
        /\ gui = [NewGui EXCEPT !.connected = c, !.has_offset = h, !.offset = o]

SliderNext ==
    \/ on_entry_change
    \/ increment_target
    \/ enable_slider_events
    \/ on_slider_change

SliderSpec == SliderInit /\ [][SliderNext]_vars

C26_FallbackUnreachable ==
    AfterLoop => Len(split(ret, EOT)) >= 2

\* the loop has exited on bytes that hold a single 0x04
C26_Witness ==
    /\ pc = "x_parse"
    /\ Len(split(ret, EOT)) = 2

----------------------------------------------------------------------------
(* ESPI2C.connect_and_init against a remote that runs init_code *)

\* The remote takes the next written byte string.  On Ctrl+D it runs
\* init_code: the imports succeed or fail with a traceback; after them
\* machine.SoftI2C(...) gives the bus object i2c, or raises inside the
\* code's own try block, which stores the message in status and prints
\* nothing.
remote_setup ==
    /\ tx # <<>>
    /\ tx' = Tail(tx)
    /\ IF EOT \in Range(Head(tx))
       THEN \E how \in {"i2c", "status", "ImportError"} :
               LET r == Resp(<<>>, IF how = "ImportError" THEN <<97>> ELSE <<>>) IN
               /\ wire' = wire \o BannersFor(Head(tx)) \o r
               /\ stream' = stream \o BannersFor(Head(tx)) \o r
               /\ reply' = r
               /\ printed' = <<>>
               /\ errtext' = IF how = "ImportError" THEN <<97>> ELSE <<>>
               /\ replied' = TRUE
               /\ found' = [sem |-> how, val |-> <<>>]
       ELSE /\ wire' = wire \o BannersFor(Head(tx))
            /\ stream' = stream \o BannersFor(Head(tx))
            /\ UNCHANGED <<reply, printed, errtext, replied, found>>
    /\ UNCHANGED <<pc, caller, code, rx, ret, outcome, log, pend1, execs,
                   port, method, result, said, pin_vars, station_vars>>

ConnectNext ==
    \/ connect_and_init_interrupt
    \/ connect_and_init_raw
    \/ connect_and_init_clear
    \/ exec_raw_raw
    \/ exec_raw_clear
    \/ exec_raw_send
    \/ exec_raw_read
    \/ exec_raw_parse
    \/ exec_raw_exit
    \/ remote_setup
    \/ serial_deliver

ConnectSpec == Init /\ [][ConnectNext]_vars

\* connect_and_init has printed "I2C initialized on ESP32." and returned
Initialized == pc = "idle" /\ caller = "init"

\* C27: connect_and_init prints "I2C initialized on ESP32." only if the
\* remote created the bus object i2c.
C27_InitializedOnlyIfCreated ==
    Initialized => found.sem = "i2c"

----------------------------------------------------------------------------
(* MotorControlGUI.serial_loop, the thread that reads the motor         *)
(* controller's position lines.  wire and rx are the line and the port's *)
(* input buffer, pc is the thread's position.                            *)

\* position lines the controller emits in one run
MaxLines == 2

\* positions the controller reports, in tenths
Positions == {7, 12, 305}

\* what serial_loop leaves alone
loop_rest == <<caller, code, tx, ret, outcome, log, stream, reply, printed,
               errtext, replied, pend1, execs, port, method, result, said,
               found, pin_vars, flow, tk, cam>>

\* float(last_line) on a line of digits and blanks: the number, or
\* ValueError when the line holds anything else or nothing (the stripped
\* line is bound once by the set constructor)
float_(t) ==
    CHOOSE r \in {IF u # <<>> /\ \A i \in 1..Len(u) : u[i] \in Digits
                  THEN [ok |-> TRUE, val |-> ParseInt(u)]
                  ELSE [ok |-> FALSE, val |-> 0] : u \in {strip(t)}} : TRUE

\* text.split('\n')[-1]: what follows the last newline of the text
after_newline(text) ==
    LET nl == {i \in 1..Len(text) : text[i] = 10} IN
    IF nl = {} THEN text
    ELSE SubSeq(text, (CHOOSE i \in nl : \A j \in nl : j <= i) + 1, Len(text))

\* lines = self.serial_port.read_all().decode('utf-8', errors='ignore')
\*             .strip().split('\n'); last_line = lines[-1]
last_line(b) ==
    CHOOSE r \in {after_newline(text) : text \in {strip(decode_ignore(b))}} : TRUE

\* if not self.connected: port = self.find_port(); without a port the
\* thread sleeps and comes back
loop_find ==
    /\ pc = "l_top"
    /\ ~gui.connected
    /\ pc' = IF link.available THEN "l_open" ELSE "l_top"
    /\ UNCHANGED <<wire, rx, gui, link, loop_rest>>

\* serial.Serial(port, 921600, timeout=0.1): connected = True, or the
\* open raises because the device has gone; continue
loop_open ==
    /\ pc = "l_open"
    /\ pc' = "l_top"
    /\ IF link.available
       THEN /\ link' = [link EXCEPT !.serial_port = "open", !.nreads = 0]
            /\ gui' = [gui EXCEPT !.connected = TRUE]
       ELSE UNCHANGED <<gui, link>>
    /\ UNCHANGED <<wire, rx, loop_rest>>

\* the except branch that does not close the port
loop_fail_noclose ==
    /\ pc = "l_top"
    /\ gui.connected
    /\ link.serial_port = "stale"
    /\ gui' = [gui EXCEPT !.connected = FALSE, !.has_offset = FALSE, !.offset = 0]
    /\ rx' = <<>>
    /\ wire' = <<>>
    /\ pc' = "l_sleep"
    /\ UNCHANGED <<link, loop_rest>>

\* in_waiting raises on a stale port: connected = False, offset = None, the port is
\* closed
loop_fail ==
    /\ pc = "l_top"
    /\ gui.connected
    /\ link.serial_port = "stale"
    /\ gui' = [gui EXCEPT !.connected = FALSE, !.has_offset = FALSE, !.offset = 0]
    /\ link' = [link EXCEPT !.serial_port = "closed"]
    /\ rx' = <<>>
    /\ wire' = <<>>
    /\ pc' = "l_sleep"
    /\ UNCHANGED loop_rest

\* loop_read that takes every reading as the new offset
loop_read_reoffset ==
    /\ pc = "l_top"
    /\ gui.connected
    /\ link.serial_port = "open"
    /\ rx # <<>>
    /\ LET v == float_(last_line(rx)) IN
        IF v.ok
        THEN /\ gui' = [gui EXCEPT !.has_offset = TRUE, !.offset = v.val,
                                   !.current_pos = 0]
             /\ link' = [link EXCEPT !.nreads = @ + 1]
        ELSE UNCHANGED <<gui, link>>
    /\ rx' = <<>>
    /\ pc' = "l_sleep"
    /\ UNCHANGED <<wire, loop_rest>>

\* in_waiting > 0: read all, take the last line; a number becomes the
\* offset if there is none, and current_pos = val - offset; anything else
\* is passed over
loop_read ==
    /\ pc = "l_top"
    /\ gui.connected
    /\ link.serial_port = "open"
    /\ rx # <<>>
    /\ LET v == float_(last_line(rx)) IN
        IF v.ok
        THEN LET off == IF gui.has_offset THEN gui.offset ELSE v.val IN
             /\ gui' = [gui EXCEPT !.has_offset = TRUE, !.offset = off,
                                   !.current_pos = v.val - off]
             /\ link' = [link EXCEPT !.nreads = @ + 1]
        ELSE UNCHANGED <<gui, link>>
    /\ rx' = <<>>
    /\ pc' = "l_sleep"
    /\ UNCHANGED <<wire, loop_rest>>

\* in_waiting = 0: nothing to read
loop_idle ==
    /\ pc = "l_top"
    /\ gui.connected
    /\ link.serial_port = "open"
    /\ rx = <<>>
    /\ pc' = "l_sleep"
    /\ UNCHANGED <<wire, rx, gui, link, loop_rest>>

\* time.sleep(0.001), back to the top of the loop
loop_sleep ==
    /\ pc = "l_sleep"
    /\ pc' = "l_top"
    /\ UNCHANGED <<wire, rx, gui, link, loop_rest>>

\* The controller prints a position line; it reaches the line only while
\* the host has the port open.
device_emit ==
    /\ link.available
    /\ Len(link.emitted) < MaxLines
    /\ \E v \in Positions :
        /\ link' = [link EXCEPT !.emitted = Append(link.emitted, v)]
        /\ wire' = IF link.serial_port = "open"
                   THEN wire \o FormatInt(v) \o <<10>>
                   ELSE wire
    /\ UNCHANGED <<pc, rx, gui, loop_rest>>

\* The controller is unplugged: what was on the line is lost, and a port
\* the host holds open on it is stale from now on.
device_unplug ==
    /\ link.available
    /\ link' = [link EXCEPT !.available = FALSE,
                            !.serial_port = IF @ = "open" THEN "stale" ELSE @]
    /\ wire' = <<>>
    /\ rx' = <<>>
    /\ UNCHANGED <<pc, gui, loop_rest>>

\* The controller is plugged in again.
device_plug ==
    /\ ~link.available
    /\ link' = [link EXCEPT !.available = TRUE]
    /\ UNCHANGED <<pc, wire, rx, gui, loop_rest>>

\* the thread has started: self.running = True; thread.start()
LoopInit ==
    /\ OthersIdle
    /\ pc = "l_top"
    /\ StationIdle

\* the steps of the thread
serial_loop ==
    \/ loop_find
    \/ loop_open
    \/ loop_fail
    \/ loop_read
    \/ loop_idle
    \/ loop_sleep

LoopNext ==
    \/ serial_loop
    \/ on_slider_change
    \/ device_emit
    \/ device_unplug
    \/ device_plug
    \/ serial_deliver

LoopSpec == LoopInit /\ [][LoopNext]_vars

\* the thread and the controller, the window left alone
PortNext ==
    \/ serial_loop
    \/ device_emit
    \/ device_unplug
    \/ device_plug
    \/ serial_deliver

\* the thread runs as long as self.running, which nothing sets to False
FairLoopSpec == LoopInit /\ [][PortNext]_vars /\ WF_vars(serial_loop)

----------------------------------------------------------------------------
\* the thread polls a port that has gone stale: the except branch runs
LoopFailure ==
    /\ pc = "l_top"
    /\ gui.connected
    /\ link.serial_port = "stale"
    /\ pc' = "l_sleep"

\* C28: a failure while reading the port leaves connected = False,
\* offset = None and the port closed; connected is True only while a port
\* the loop opened has not been closed by it; and the running loop notices
\* a lost port and, when not connected, comes to connect again unless no
\* matching port is there.
C28_ReconnectStateMachine ==
    /\ [][LoopFailure =>
            /\ ~gui'.connected
            /\ ~gui'.has_offset
            /\ link'.serial_port = "closed"]_vars
    /\ [](gui.connected => link.serial_port \in {"open", "stale"})
    /\ (link.serial_port = "stale") ~> (link.serial_port = "closed")
    /\ (~gui.connected) ~> (gui.connected \/ ~link.available)

\* C28: after a reading and a lost connection the loop has closed the port,
\* found the controller again and is about to open it.
C28_Witness ==
    /\ link.serial_port = "closed"
    /\ ~gui.connected
    /\ ~gui.has_offset
    /\ link.nreads > 0
    /\ link.available
    /\ pc = "l_open"

\* C29: offset and current_pos come from complete lines the controller
\* emitted: the offset is an emitted position and current_pos + offset is
\* an emitted position.
C29_OnlyCompleteLines ==
    gui.has_offset =>
        /\ gui.offset \in Range(link.emitted)
        /\ gui.current_pos + gui.offset \in Range(link.emitted)

\* C30: the offset is set by the first valid reading of a connection, which
\* makes current_pos 0; it keeps its value while it is set; and it is reset
\* only when the connection is lost.
C30_OffsetOncePerConnection ==
    /\ [][/\ (gui.has_offset /\ gui'.has_offset) => gui'.offset = gui.offset
          /\ (~gui.has_offset /\ gui'.has_offset) =>
                /\ link.nreads = 0
                /\ link'.nreads = 1
                /\ gui'.current_pos = 0
          /\ (gui.has_offset /\ ~gui'.has_offset) => ~gui'.connected]_vars
    /\ [](gui.has_offset <=> (gui.connected /\ link.nreads > 0))

\* C30: a second connection has taken its own offset and a later reading
\* of that connection has moved current_pos away from 0.
C30_Witness ==
    /\ gui.connected
    /\ gui.has_offset
    /\ link.nreads > 1
    /\ gui.current_pos # 0

----------------------------------------------------------------------------
(* MotorControlGUI in the Tk main loop: the hold-to-repeat buttons, the   *)
(* target entry, and the callbacks the handlers leave behind (after(50),  *)
(* after(10), the command of the scale).  One handler runs at a time.     *)

\* calls of set_target_programmatically in one run
MaxSets == 3

\* what the handlers of the main loop leave alone
ev_rest == <<others, flow, link, cam>>

\* target_scale.set(val) inside set_target_programmatically, with
\* send_target and root.after(10, self.enable_slider_events): the scale
\* takes the value and, when the value has changed, owes a call of its
\* command; one more enable_slider_events is pending
after_set(g, t, val) ==
    [t EXCEPT !.calls = @ + 1,
              !.sends = IF g.connected THEN @ + 1 ELSE @,
              !.command = (@ \/ val # t.scale),
              !.scale = val,
              !.enables = @ + 1]

\* def start_repeat(self, delta): increment_target(delta), then
\* self.repeat_job = self.root.after(50, lambda: self.start_repeat(delta))
start_repeat(delta) ==
    LET new_val == gui.target_pos + delta
        t       == after_set(gui, tk, new_val)
    IN  /\ tk.calls < MaxSets
        /\ gui' = set_target_programmatically(gui, new_val)
        /\ tk' = [t EXCEPT !.repeat_job = t.next_id,
                           !.jobs = @ \cup {[id |-> t.next_id, delta |-> delta]},
                           !.next_id = @ + 1]

\* <ButtonPress-1> on the minus or the plus button
button_press ==
    /\ \E delta \in Deltas : start_repeat(delta)
    /\ tk'.stopped = FALSE
    /\ UNCHANGED ev_rest

\* a pending after(50) callback runs start_repeat(delta) again
repeat_fire ==
    /\ \E j \in tk.jobs :
        LET new_val == gui.target_pos + j.delta
            t       == after_set(gui, [tk EXCEPT !.jobs = @ \ {j}], new_val)
        IN  /\ tk.calls < MaxSets
            /\ gui' = set_target_programmatically(gui, new_val)
            /\ tk' = [t EXCEPT !.repeat_job = t.next_id,
                               !.jobs = @ \cup {[id |-> t.next_id, delta |-> j.delta]},
                               !.next_id = @ + 1]
    /\ UNCHANGED ev_rest

\* <ButtonRelease-1>: def stop_repeat(self, event=None) cancels the job
\* self.repeat_job names, if any
stop_repeat ==
    /\ tk' = [tk EXCEPT !.jobs = {j \in @ : j.id # tk.repeat_job},
                        !.repeat_job = 0,
                        !.stopped = TRUE]
    /\ UNCHANGED <<gui, ev_rest>>

\* <Return> in the target entry: on_entry_change
entry_return ==
    /\ tk.calls < MaxSets
    /\ \E val \in EntryVals :
        /\ gui' = set_target_programmatically(gui, val)
        /\ tk' = after_set(gui, tk, val)
    /\ UNCHANGED ev_rest

\* the scale delivers the command it owes: on_slider_change(val) with the
\* value it shows
scale_command ==
    /\ tk.command
    /\ IF gui.ignore_slider_event
       THEN /\ gui' = gui
            /\ tk' = [tk EXCEPT !.command = FALSE]
       ELSE /\ gui' = send_target([gui EXCEPT !.target_pos = tk.scale])
            /\ tk' = [tk EXCEPT !.command = FALSE,
                                !.sends = IF gui.connected THEN @ + 1 ELSE @]
    /\ UNCHANGED ev_rest

\* a pending after(10) callback runs enable_slider_events
enable_fire ==
    /\ tk.enables > 0
    /\ gui' = [gui EXCEPT !.ignore_slider_event = FALSE]
    /\ tk' = [tk EXCEPT !.enables = @ - 1]
    /\ UNCHANGED ev_rest

\* the window is up, the serial thread has connected or not
EventInit ==
    /\ OthersIdle
    /\ pc = "idle"
    /\ flow = NoFlow
    /\ tk = NewTk
    /\ cam = NewCam
    /\ \E c \in BOOLEAN :
        /\ gui = [NewGui EXCEPT !.connected = c]
        /\ link = [NewLink EXCEPT !.serial_port = IF c THEN "open" ELSE "None"]

EventNext ==
    \/ button_press
    \/ repeat_fire
    \/ stop_repeat
    \/ entry_return
    \/ scale_command
    \/ enable_fire

EventSpec == EventInit /\ [][EventNext]_vars

\* C31: once stop_repeat has run and no button has been pressed since, no
\* start_repeat callback is pending.
C31_NoRepeatAfterStop ==
    tk.stopped => tk.jobs = {}

\* C32: every call of set_target_programmatically on a connected window has
\* written one message and the callbacks of the scale none, and with no
\* enable_slider_events pending the flag is False again.
C32_OneSendPerSet ==
    /\ gui.connected => tk.sends = tk.calls
    /\ tk.enables = 0 => ~gui.ignore_slider_event

----------------------------------------------------------------------------
(* send_target and toggle_gpio on the GUI thread while serial_loop runs   *)
(* on its own thread: the test of self.connected and the write are two    *)
(* steps, and the other thread may run between them.                      *)

\* if self.connected and self.serial_port: the test passes
send_target_check ==
    /\ tk.wr = "idle"
    /\ gui.connected
    /\ link.serial_port # "None"
    /\ tk' = [tk EXCEPT !.wr = "send_target"]
    /\ UNCHANGED <<gui, ev_rest>>

\* self.serial_port.write(msg.encode('utf-8')) with actual_target =
\* target_pos + (offset if offset else 0.0); a port that is not open raises
\* and the except clause passes
send_target_write ==
    /\ tk.wr = "send_target"
    /\ tk' = [tk EXCEPT !.wr = "idle",
                        !.attempt = [port |-> link.serial_port,
                                     connected |-> gui.connected]]
    /\ gui' = IF link.serial_port = "open"
              THEN [gui EXCEPT !.sent_any = TRUE,
                               !.sent_val = gui.target_pos
                                   + (IF gui.has_offset /\ gui.offset # 0
                                      THEN gui.offset ELSE 0)]
              ELSE gui
    /\ UNCHANGED ev_rest

\* toggle_gpio: if self.connected and self.serial_port: the test passes
toggle_gpio_check ==
    /\ tk.wr = "idle"
    /\ gui.connected
    /\ link.serial_port # "None"
    /\ tk' = [tk EXCEPT !.wr = "toggle_gpio"]
    /\ UNCHANGED <<gui, ev_rest>>

\* toggle_gpio: self.serial_port.write(msg.encode('utf-8'))
toggle_gpio_write ==
    /\ tk.wr = "toggle_gpio"
    /\ tk' = [tk EXCEPT !.wr = "idle",
                        !.attempt = [port |-> link.serial_port,
                                     connected |-> gui.connected]]
    /\ UNCHANGED <<gui, ev_rest>>

RaceNext ==
    \/ serial_loop
    \/ device_emit
    \/ device_unplug
    \/ device_plug
    \/ serial_deliver
    \/ send_target_check
    \/ send_target_write
    \/ toggle_gpio_check
    \/ toggle_gpio_write

RaceSpec == LoopInit /\ [][RaceNext]_vars

\* C33: no write of send_target or toggle_gpio is attempted on a port that
\* serial_loop has closed, and none while connected is False.
C33_NoWriteOnClosedPort ==
    /\ tk.attempt.port # "closed"
    /\ tk.attempt.connected

----------------------------------------------------------------------------
(* firmware_fast: the /stream route and the task send_stream_frames.  The *)
(* tasks are coroutines: a pass over stream_connections has no await, so  *)
(* the route handler runs only while send_stream_frames sleeps; clients   *)
(* come and go at any time.                                               *)

\* clients that ask for /stream in one run
MaxConns == 3

\* frames cam.take is asked for in one run
MaxFrames == 2

\* what the camera firmware leaves alone
cam_rest == <<others, flow, gui, link, tk>>

\* def stream_handler(request): stream_connections.append(response)
stream_handler ==
    /\ cam.pc = "sleep"
    /\ cam.next_conn <= MaxConns
    /\ cam' = [cam EXCEPT !.stream_connections = Append(@, cam.next_conn),
                          !.next_conn = @ + 1]
    /\ UNCHANGED cam_rest

\* A client closes its side: send_frame on its connection raises
\* BrokenPipeError from now on.
client_leaves ==
    /\ \E c \in Range(cam.stream_connections) \ cam.broken :
        cam' = [cam EXCEPT !.broken = @ \cup {c}]
    /\ UNCHANGED cam_rest

\* frame = cam.take(0.1): with a frame the pass starts at the head of the
\* list, without one 'dropped frame' is printed and the task sleeps
take_frame ==
    /\ cam.pc = "sleep"
    /\ cam.frames < MaxFrames
    /\ \E got \in BOOLEAN :
        cam' = IF got
               THEN [cam EXCEPT !.frames = @ + 1, !.pc = "pass", !.i = 1,
                                !.start = Range(cam.stream_connections),
                                !.sent = {}]
               ELSE [cam EXCEPT !.frames = @ + 1]
    /\ UNCHANGED cam_rest

\* one turn of `for connection in iter(stream_connections)`: the iterator
\* hands out the element at its index and moves on by one; send_frame, or
\* on BrokenPipeError close() and stream_connections.remove(connection)
pass_step ==
    /\ cam.pc = "pass"
    /\ cam.i <= Len(cam.stream_connections)
    /\ LET connection == cam.stream_connections[cam.i] IN
        cam' = IF connection \in cam.broken
               THEN [cam EXCEPT !.stream_connections =
                                     SelectSeq(@, LAMBDA x : x # connection),
                                !.removed = @ \cup {connection},
                                !.i = @ + 1]
               ELSE [cam EXCEPT !.sent = @ \cup {connection},
                                !.resent = (@ \/ connection \in cam.removed),
                                !.i = @ + 1]
    /\ UNCHANGED cam_rest

\* the iterator is past the end of the list: await asyncio.sleep(0.05)
pass_end ==
    /\ cam.pc = "pass"
    /\ cam.i > Len(cam.stream_connections)
    /\ cam' = [cam EXCEPT !.pc = "sleep"]
    /\ UNCHANGED cam_rest

\* the server has started, nobody has asked for /stream
CamInit ==
    /\ OthersIdle
    /\ pc = "idle"
    /\ StationIdle

CamNext ==
    \/ stream_handler
    \/ client_leaves
    \/ take_frame
    \/ pass_step
    \/ pass_end

CamSpec == CamInit /\ [][CamNext]_vars

\* C34: when a pass is over, every connection that was in
\* stream_connections at its start has been sent the frame or removed, and
\* no removed connection has been sent to.
C34_NoConnectionSkipped ==
    /\ (cam.pc = "pass" /\ cam.i > Len(cam.stream_connections)) =>
            cam.start \subseteq (cam.sent \cup cam.removed)
    /\ ~cam.resent

====
